---- MODULE Spec2Model ----
(***************************************************************************)
(* The fractal viewport engine of cacharle/mandelbrot: the escape-time     *)
(* evaluator (src/mandelbrot.c), the palette generator, the viewport       *)
(* transitions and the render cycle (src/graphics.c).                      *)
(*                                                                         *)
(* header.h and the file that defines map_range and mandelbrot_pixels are  *)
(* not among the sources; what the model needs of them (MAX_ITERATION,     *)
(* _INFINITY, Color, map_range, mandelbrot_pixels) is modelled from the    *)
(* specification and from the way graphics.c and mandelbrot.c use them.    *)
(***************************************************************************)
EXTENDS Integers, Sequences, FiniteSets, TLC

VARIABLES
    \* GState (graphics.c:68-77) and the position of graphics_run
    running, changed, center, real_range, imag_range, window_w, window_h,
    palette, in_set_color, pc,
    \* the host's event queue (SDL_PollEvent) and the number of events posted
    queue, posted,
    \* what the current tick has done so far, and the raster last presented
    tick, raster,
    \* header.h's compile-time globals
    MAX_ITERATION, _INFINITY,
    \* one call of mandelbrot_in_set: argument, locals, return value
    ev_c, ev_z, ev_i, ev_steps, ev_ret, ev_pc,
    \* one call of create_palette: arguments, locals
    pal_start, pal_end, pal_i, pal_pc,
    \* graphics_init: its argument and the calls it has made
    init_config, init_calls

vars == <<running, changed, center, real_range, imag_range, window_w, window_h,
          palette, in_set_color, pc, queue, posted, tick, raster,
          MAX_ITERATION, _INFINITY,
          ev_c, ev_z, ev_i, ev_steps, ev_ret, ev_pc,
          pal_start, pal_end, pal_i, pal_pc, init_config, init_calls>>

gstate_vars == <<running, changed, center, real_range, imag_range, window_w,
                 window_h, in_set_color, pc, queue, posted, tick, raster>>
eval_vars == <<ev_c, ev_z, ev_i, ev_steps, ev_ret, ev_pc>>
pal_vars == <<pal_start, pal_end, pal_i, pal_pc>>
init_vars == <<init_config, init_calls>>

(***************************************************************************)
(* Bounds of the model.                                                    *)
(***************************************************************************)
\* significand bits of the model's binary floating point (53 in a C double)
MantBits == 7
\* exponent field bits of the model's floating point (11 in a C double)
ExpBits == 5
\* events the host posts in one behaviour
MaxEvents == 2
\* largest MAX_ITERATION the pure-function specifications draw
MaxIter == 5

(***************************************************************************)
(* C double, at reduced width: a finite value is <<m, e>>, standing for    *)
(* m * 2^e with |m| < 2^MantBits, normal when 2^(MantBits-1) <= |m|,       *)
(* subnormal (or zero) only at e = EMin.  Results are rounded to nearest,  *)
(* ties to even; a result beyond EMax is an infinity, and invalid          *)
(* operations give NaN.  The sign of zero is not kept.                     *)
(***************************************************************************)
EMax == 2^(ExpBits - 1) - MantBits
EMin == 3 - 2^(ExpBits - 1) - MantBits
ESpecial == EMax + 1
NaN == <<0, ESpecial>>
PosInf == <<1, ESpecial>>
NegInf == <<-1, ESpecial>>
Zero == <<0, EMin>>

Abs(n) == IF n < 0 THEN -n ELSE n
Sgn(n) == IF n < 0 THEN -1 ELSE IF n = 0 THEN 0 ELSE 1
IsNaN(x) == x = NaN
IsInf(x) == x[2] = ESpecial /\ x[1] # 0
IsFinite(x) == x[2] <= EMax
Inf(s) == IF s < 0 THEN NegInf ELSE PosInf

\* a, d > 0: <<a', d', e'>> with a/d * 2^e = a'/d' * 2^e' and
\* 2^(MantBits-1) <= a'/d' < 2^MantBits
RECURSIVE Scale(_, _, _)
Scale(a, d, e) ==
    IF a >= d * 2^MantBits THEN Scale(a, 2 * d, e + 1)
    ELSE IF a < d * 2^(MantBits - 1) THEN Scale(2 * a, d, e - 1)
    ELSE <<a, d, e>>

\* a/d (a >= 0, d > 0) rounded to the nearest integer, ties to even
RoundQ(a, d) ==
    LET m == a \div d
        r == a - m * d
    IN  IF 2 * r > d \/ (2 * r = d /\ m % 2 = 1) THEN m + 1 ELSE m

\* the double nearest to (n / d) * 2^e, d > 0
FRound(n, d, e) ==
    IF n = 0 THEN Zero
    ELSE LET s == Scale(Abs(n), d, e)
             sh == EMin - s[3]
         IN  IF sh > MantBits + 1 THEN Zero
             ELSE IF sh > 0
                  THEN <<Sgn(n) * RoundQ(s[1], s[2] * 2^sh), EMin>>
             ELSE LET m == RoundQ(s[1], s[2])
                      mm == IF m = 2^MantBits THEN 2^(MantBits - 1) ELSE m
                      ee == IF m = 2^MantBits THEN s[3] + 1 ELSE s[3]
                  IN  IF ee > EMax THEN Inf(n) ELSE <<Sgn(n) * mm, ee>>

\* an int converted to double; a decimal literal n/d read as a double
FromInt(n) == FRound(n, 1, 0)
FromRat(n, d) == FRound(n, d, 0)

FNeg(x) == <<-x[1], x[2]>>

FMul(x, y) ==
    IF IsNaN(x) \/ IsNaN(y) THEN NaN
    ELSE IF IsInf(x) \/ IsInf(y)
         THEN IF x[1] = 0 \/ y[1] = 0 THEN NaN ELSE Inf(x[1] * y[1])
    ELSE FRound(x[1] * y[1], 1, x[2] + y[2])

FDiv(x, y) ==
    IF IsNaN(x) \/ IsNaN(y) THEN NaN
    ELSE IF IsInf(x) THEN (IF IsInf(y) THEN NaN ELSE Inf(x[1] * Sgn(2 * y[1] + 1)))
    ELSE IF IsInf(y) THEN Zero
    ELSE IF y[1] = 0 THEN (IF x[1] = 0 THEN NaN ELSE Inf(x[1]))
    ELSE FRound(x[1] * Sgn(y[1]), Abs(y[1]), x[2] - y[2])

FAdd(x, y) ==
    IF IsNaN(x) \/ IsNaN(y) THEN NaN
    ELSE IF IsInf(x) THEN (IF IsInf(y) /\ x # y THEN NaN ELSE x)
    ELSE IF IsInf(y) THEN y
    ELSE IF x[1] = 0 THEN y
    ELSE IF y[1] = 0 THEN x
    ELSE LET hi == IF x[2] >= y[2] THEN x ELSE y
             lo == IF x[2] >= y[2] THEN y ELSE x
             diff == hi[2] - lo[2]
         IN  IF diff > MantBits + 2 THEN hi
             ELSE FRound(hi[1] * 2^diff + lo[1], 1, lo[2])

FSub(x, y) == FAdd(x, FNeg(y))

\* x > y as C compares doubles: false when either is NaN
FGt(x, y) == ~IsNaN(x) /\ ~IsNaN(y) /\ FSub(x, y)[1] > 0


(***************************************************************************)
(* double complex as <<re, im>>.                                           *)
(***************************************************************************)
CZero == <<Zero, Zero>>
CAdd(z, c) == <<FAdd(z[1], c[1]), FAdd(z[2], c[2])>>
\* cpow(z, 2), taken as the complex square z * z
CSquare(z) ==
    <<FSub(FMul(z[1], z[1]), FMul(z[2], z[2])),
      FAdd(FMul(z[1], z[2]), FMul(z[1], z[2]))>>
\* cabs(z) > t: the modulus is compared through its square; the modulus of a
\* value with an infinite part is infinite, and nothing exceeds an infinite t
CabsGt(z, t) ==
    IF ~IsFinite(t) THEN FALSE
    ELSE IF IsInf(z[1]) \/ IsInf(z[2]) THEN TRUE
    ELSE FGt(FAdd(FMul(z[1], z[1]), FMul(z[2], z[2])), FMul(t, t))

(***************************************************************************)
(* mandelbrot_in_set (mandelbrot.c:13-24).                                 *)
(***************************************************************************)
\* a loop test that admits one iteration too many
LoopTest_Inclusive(i) == i <= MAX_ITERATION
\* the loop test of line 17
LoopTest(i) == i < MAX_ITERATION
\* a step that subtracts c
IterStep_Minus(z, c) == CAdd(CSquare(z), <<FNeg(c[1]), FNeg(c[2])>>)
\* line 19
IterStep(z, c) == CAdd(CSquare(z), c)
\* the test of line 20
Escaped(z) == CabsGt(z, _INFINITY)

RECURSIVE InSetFrom(_, _, _)
InSetFrom(c, z, i) ==
    IF LoopTest(i)
    THEN LET z1 == IterStep(z, c)
         IN  IF Escaped(z1) THEN i ELSE InSetFrom(c, z1, i + 1)
    ELSE -1
mandelbrot_in_set(c) == InSetFrom(c, CZero, 0)

\* the same function, one loop iteration per step
EvalCall ==
    /\ ev_pc = "idle"
    /\ ev_pc' = "loop"
    /\ ev_z' = CZero
    /\ ev_i' = 0
    /\ ev_steps' = 0
    /\ UNCHANGED <<ev_c, ev_ret>>
    /\ UNCHANGED <<gstate_vars, palette, MAX_ITERATION, _INFINITY, init_vars, pal_vars>>

EvalIter ==
    /\ ev_pc = "loop"
    /\ LoopTest(ev_i)
    /\ ev_z' = IterStep(ev_z, ev_c)
    /\ ev_steps' = ev_steps + 1
    /\ IF Escaped(ev_z')
       THEN ev_ret' = ev_i /\ ev_pc' = "done" /\ ev_i' = ev_i
       ELSE ev_i' = ev_i + 1 /\ UNCHANGED <<ev_ret, ev_pc>>
    /\ UNCHANGED ev_c
    /\ UNCHANGED <<gstate_vars, palette, MAX_ITERATION, _INFINITY, init_vars, pal_vars>>

EvalExit ==
    /\ ev_pc = "loop"
    /\ ~LoopTest(ev_i)
    /\ ev_ret' = -1
    /\ ev_pc' = "done"
    /\ UNCHANGED <<ev_c, ev_z, ev_i, ev_steps>>
    /\ UNCHANGED <<gstate_vars, palette, MAX_ITERATION, _INFINITY, init_vars, pal_vars>>

(***************************************************************************)
(* Color: the channels of the packed value, red in the low byte            *)
(* (RED_MASK, graphics.c:23-25).                                           *)
(***************************************************************************)
IN_SET_COLOR == 328965
PALETTE_START == 34
PALETTE_END == 14036783
FromHex(h) == [r |-> h % 256, g |-> (h \div 256) % 256, b |-> (h \div 65536) % 256]
Unwritten == [r |-> -1, g |-> -1, b |-> -1]

(***************************************************************************)
(* create_palette (graphics.c:214-231).                                    *)
(***************************************************************************)
\* lines 216-218
ChannelStep(s, e) == Abs(e - s) \div MAX_ITERATION
\* a gradient that starts one step late
PaletteEntry_FromOne(start, end, i) ==
    [r |-> ((i + 1) * ChannelStep(start.r, end.r) + start.r) % 256,
     g |-> ((i + 1) * ChannelStep(start.g, end.g) + start.g) % 256,
     b |-> ((i + 1) * ChannelStep(start.b, end.b) + start.b) % 256]
\* lines 225-227: a channel is one byte
PaletteEntry(start, end, i) ==
    [r |-> (i * ChannelStep(start.r, end.r) + start.r) % 256,
     g |-> (i * ChannelStep(start.g, end.g) + start.g) % 256,
     b |-> (i * ChannelStep(start.b, end.b) + start.b) % 256]
\* line 229
PaletteSentinel == FromHex(0)
create_palette(start, end) ==
    [i \in 0..MAX_ITERATION |->
        IF i < MAX_ITERATION THEN PaletteEntry(start, end, i) ELSE PaletteSentinel]

\* the same function step by step: the allocation, the loop, the last slot
PaletteAlloc ==
    /\ pal_pc = "call"
    /\ \E ok \in BOOLEAN :
        IF ok
        THEN /\ palette' = [i \in 0..MAX_ITERATION |-> Unwritten]
             /\ pal_i' = 0
             /\ pal_pc' = "loop"
        ELSE /\ pal_pc' = "null"
             /\ UNCHANGED <<palette, pal_i>>
    /\ UNCHANGED <<pal_start, pal_end>>
    /\ UNCHANGED <<gstate_vars, MAX_ITERATION, _INFINITY, init_vars, eval_vars>>

PaletteLoop ==
    /\ pal_pc = "loop"
    /\ pal_i < MAX_ITERATION
    /\ palette' = [palette EXCEPT ![pal_i] = PaletteEntry(pal_start, pal_end, pal_i)]
    /\ pal_i' = pal_i + 1
    /\ UNCHANGED <<pal_start, pal_end, pal_pc>>
    /\ UNCHANGED <<gstate_vars, MAX_ITERATION, _INFINITY, init_vars, eval_vars>>

PaletteReturn ==
    /\ pal_pc = "loop"
    /\ ~(pal_i < MAX_ITERATION)
    /\ palette' = [palette EXCEPT ![MAX_ITERATION] = PaletteSentinel]
    /\ pal_pc' = "done"
    /\ UNCHANGED <<pal_start, pal_end, pal_i>>
    /\ UNCHANGED <<gstate_vars, MAX_ITERATION, _INFINITY, init_vars, eval_vars>>

(***************************************************************************)
(* The pixel-to-plane mapping and the pixel buffer builder.                *)
(***************************************************************************)
\* out_lo + (x - in_lo) * (out_hi - out_lo) / (in_hi - in_lo)
map_range(x, in_lo, in_hi, out_lo, out_hi) ==
    FAdd(out_lo, FDiv(FMul(FSub(x, in_lo), FSub(out_hi, out_lo)), FSub(in_hi, in_lo)))

\* the raster of one call (graphics.c:103-105): the builder is handed the
\* bounds, the dimensions and the palette, and nothing else of the state; a
\* bounded point takes the palette's terminal slot
mandelbrot_pixels(real_lo, real_hi, imag_lo, imag_hi, w, h, pal) ==
    [p \in (0..(w - 1)) \X (0..(h - 1)) |->
        LET c == <<map_range(FromInt(p[1]), FromInt(0), FromInt(w), real_lo, real_hi),
                   map_range(FromInt(p[2]), FromInt(0), FromInt(h), imag_lo, imag_hi)>>
            n == mandelbrot_in_set(c)
        IN  IF n >= 0 THEN pal[n] ELSE pal[MAX_ITERATION]]

(***************************************************************************)
(* The viewport transitions (graphics.c:10-15, 246-274).  s is a GState.   *)
(***************************************************************************)
MOVE_RATIO == 10
ZOOM_RATIO == FromRat(11, 10)
Half(x) == FDiv(x, FromInt(2))
REAL_LO(s) == FSub(s.center[1], Half(s.real_range))
REAL_HI(s) == FAdd(s.center[1], Half(s.real_range))
IMAG_LO(s) == FSub(s.center[2], Half(s.imag_range))
IMAG_HI(s) == FAdd(s.center[2], Half(s.imag_range))

recenter_x(s, x) ==
    [s EXCEPT !.center[1] = map_range(FromInt(x), FromInt(0), FromInt(s.window_w),
                                      REAL_LO(s), REAL_HI(s))]
recenter_y(s, y) ==
    [s EXCEPT !.center[2] = map_range(FromInt(y), FromInt(0), FromInt(s.window_w),
                                      IMAG_LO(s), IMAG_HI(s))]
recenter(s, x, y) == recenter_y(recenter_x(s, x), y)

\* a zoom-in that subtracts the ratio
zoom_in_Subtract(s, ratio) ==
    [s EXCEPT !.real_range = FSub(@, ratio), !.imag_range = FSub(@, ratio)]
zoom_in(s, ratio) ==
    [s EXCEPT !.real_range = FDiv(@, ratio), !.imag_range = FDiv(@, ratio)]
\* a zoom-out that forgets the imaginary range
zoom_out_real_only(s, ratio) == [s EXCEPT !.real_range = FMul(@, ratio)]
zoom_out(s, ratio) ==
    [s EXCEPT !.real_range = FMul(@, ratio), !.imag_range = FMul(@, ratio)]

(***************************************************************************)
(* Input events, as SDL_PollEvent delivers them.                           *)
(***************************************************************************)
Ev(type, sym, button, x, y) ==
    [type |-> type, sym |-> sym, button |-> button, x |-> x, y |-> y]
KeySyms == {"UP", "k", "DOWN", "j", "LEFT", "h", "RIGHT", "l",
            "PLUS", "p", "MINUS", "m", "q", "a"}
PanSyms == {"UP", "k", "DOWN", "j", "LEFT", "h", "RIGHT", "l"}
\* the events of a window of w by h pixels
Events(w, h) ==
    {Ev("QUIT", "", "", 0, 0), Ev("KEYUP", "k", "", 0, 0), Ev("MOUSEMOTION", "", "", 1, 1)}
    \cup {Ev("KEYDOWN", k, "", 0, 0) : k \in KeySyms}
    \cup {Ev("MOUSEWHEEL", "", "", 0, y) : y \in {-1, 0, 1, 2}}
    \cup {Ev("MOUSEBUTTONDOWN", "", b, 0, 0) : b \in {"LEFT", "MIDDLE"}}
    \cup {Ev("MOUSEBUTTONDOWN", "", "RIGHT", p[1], p[2]) :
            p \in {<<0, 0>>, <<w \div 2, h \div 2>>, <<w - 1, h - 1>>}}
\* the events the host posts in the render cycle's specification: every kind
\* of Events, with one key of some of the pairs that share a case label
PostedKeys == {"UP", "DOWN", "LEFT", "RIGHT", "j", "PLUS", "m", "q", "a"}
Posted(w, h) ==
    {e \in Events(w, h) :
        /\ e.type = "KEYDOWN" => e.sym \in PostedKeys
        /\ e.type = "MOUSEWHEEL" => e.y # 0
        /\ e.type = "MOUSEBUTTONDOWN" => e.x # w - 1}
IsPan(e) == e.type = "KEYDOWN" /\ e.sym \in PanSyms

(***************************************************************************)
(* event_handler (graphics.c:140-212).                                     *)
(***************************************************************************)
\* an inner switch without the vi keys
KeyDown_ArrowsOnly(s, sym) ==
    CASE sym = "UP" ->
            [s EXCEPT !.center[2] = FSub(@, FDiv(s.imag_range, FromInt(MOVE_RATIO)))]
      [] sym = "DOWN" ->
            [s EXCEPT !.center[2] = FAdd(@, FDiv(s.imag_range, FromInt(MOVE_RATIO)))]
      [] sym = "LEFT" ->
            [s EXCEPT !.center[1] = FSub(@, FDiv(s.real_range, FromInt(MOVE_RATIO)))]
      [] sym = "RIGHT" ->
            [s EXCEPT !.center[1] = FAdd(@, FDiv(s.real_range, FromInt(MOVE_RATIO)))]
      [] sym \in {"PLUS", "p"} -> zoom_in(s, ZOOM_RATIO)
      [] sym \in {"MINUS", "m"} -> zoom_out(s, ZOOM_RATIO)
      [] sym = "q" -> [s EXCEPT !.running = FALSE]
      [] OTHER -> s

\* the inner switch, lines 151-179
KeyDown(s, sym) ==
    CASE sym \in {"UP", "k"} ->
            [s EXCEPT !.center[2] = FSub(@, FDiv(s.imag_range, FromInt(MOVE_RATIO)))]
      [] sym \in {"DOWN", "j"} ->
            [s EXCEPT !.center[2] = FAdd(@, FDiv(s.imag_range, FromInt(MOVE_RATIO)))]
      [] sym \in {"LEFT", "h"} ->
            [s EXCEPT !.center[1] = FSub(@, FDiv(s.real_range, FromInt(MOVE_RATIO)))]
      [] sym \in {"RIGHT", "l"} ->
            [s EXCEPT !.center[1] = FAdd(@, FDiv(s.real_range, FromInt(MOVE_RATIO)))]
      [] sym \in {"PLUS", "p"} -> zoom_in(s, ZOOM_RATIO)
      [] sym \in {"MINUS", "m"} -> zoom_out(s, ZOOM_RATIO)
      [] sym = "q" -> [s EXCEPT !.running = FALSE]
      [] OTHER -> s

\* the outer switch, lines 145-209
SwitchEvent(s, e) ==
    CASE e.type = "QUIT" -> [s EXCEPT !.running = FALSE]
      [] e.type = "KEYDOWN" -> KeyDown(s, e.sym)
      [] e.type = "MOUSEWHEEL" ->
            IF e.y = -1 THEN zoom_in(s, ZOOM_RATIO)
            ELSE IF e.y = 1 THEN zoom_out(s, ZOOM_RATIO)
            ELSE s
      [] e.type = "MOUSEBUTTONDOWN" ->
            IF e.button = "RIGHT" THEN recenter(s, e.x, e.y) ELSE s
      [] OTHER -> s

\* a loop body without line 210
HandleEvent_NotDirty(s, e) == SwitchEvent(s, e)
\* one iteration of the while loop: the switch, then line 210
HandleEvent(s, e) == [SwitchEvent(s, e) EXCEPT !.changed = TRUE]

\* folding the loop body over a sequence of events
RECURSIVE HandleAll(_, _)
HandleAll(s, es) == IF es = <<>> THEN s ELSE HandleAll(HandleEvent(s, Head(es)), Tail(es))

(***************************************************************************)
(* The render state and the render cycle.                                  *)
(***************************************************************************)
GS == [running |-> running, changed |-> changed, center |-> center,
       real_range |-> real_range, imag_range |-> imag_range,
       window_w |-> window_w, window_h |-> window_h]
Bounds(s) == <<REAL_LO(s), REAL_HI(s), IMAG_LO(s), IMAG_HI(s)>>
NewTick == [start |-> GS, queued |-> queue, polled |-> <<>>,
            updates |-> 0, built |-> <<>>, presented |-> FALSE, calls |-> <<>>]

\* the host posts an event.  The program sees the queue only through
\* SDL_PollEvent: an event that arrives after a drain has ended is first seen
\* by the next tick, and one that arrives during a drain is polled by that
\* drain exactly as if it had been queued when the tick started.  Events are
\* therefore posted between ticks
Post ==
    /\ pc = "loop"
    /\ posted < MaxEvents
    /\ \E e \in Posted(window_w, window_h) : queue' = Append(queue, e)
    /\ posted' = posted + 1
    /\ UNCHANGED <<running, changed, center, real_range, imag_range, window_w,
                   window_h, in_set_color, pc, tick, raster>>
    /\ UNCHANGED <<palette, MAX_ITERATION, _INFINITY, init_vars, eval_vars, pal_vars>>

(***************************************************************************)
(* The calls a function makes, in order.  A call acquires at most one      *)
(* object (and yields NULL when it fails), reads the objects it is handed, *)
(* and releases at most one object.                                        *)
(***************************************************************************)
Acquire(fn, obj, uses, ok) == [fn |-> fn, acq |-> obj, uses |-> uses, rel |-> "", ok |-> ok]
Use(fn, uses) == [fn |-> fn, acq |-> "", uses |-> uses, rel |-> "", ok |-> TRUE]
Release(fn, obj) == [fn |-> fn, acq |-> "", uses |-> {}, rel |-> obj, ok |-> TRUE]

(***************************************************************************)
(* What a sequence of calls does to one object.  unset: the variable that  *)
(* names it was never assigned; null: its creation failed; held; released; *)
(* wild: released while unset; double: released twice; stale: read while   *)
(* not held.  Releasing NULL does nothing.                                 *)
(***************************************************************************)
TrackStep(st, c, obj) ==
    IF st \in {"wild", "double", "stale"} THEN st
    ELSE IF c.acq = obj THEN (IF c.ok THEN "held" ELSE "null")
    ELSE IF obj \in c.uses THEN (IF st = "held" THEN st ELSE "stale")
    ELSE IF c.rel = obj
         THEN CASE st = "held" -> "released"
                [] st = "null" -> "null"
                [] st = "unset" -> "wild"
                [] OTHER -> "double"
    ELSE st
RECURSIVE Track(_, _, _)
Track(calls, obj, st) ==
    IF calls = <<>> THEN st ELSE Track(Tail(calls), obj, TrackStep(st, Head(calls), obj))
Acquired(calls, obj) == \E i \in DOMAIN calls : calls[i].acq = obj /\ calls[i].ok
AllOk(calls) == \A i \in DOMAIN calls : calls[i].ok
Failed(calls, fn) == \E i \in DOMAIN calls : calls[i].fn = fn /\ ~calls[i].ok

\* destroy_state (graphics.c:276-285) for a state that is not NULL: every
\* field is released, whatever it holds
destroy_state ==
    <<Release("free", "palette"), Release("SDL_DestroyTexture", "canvas"),
      Release("SDL_DestroyRenderer", "renderer"),
      Release("SDL_DestroyWindow", "window"), Release("free", "state")>>
\* error_exit (graphics.c:293-298)
error_exit == <<Use("SDL_Log", {}), Use("SDL_Quit", {}), Use("exit(EXIT_FAILURE)", {})>>
\* error_exit_state (graphics.c:287-291)
error_exit_state == destroy_state \o error_exit

\* update (graphics.c:101-138), with the step that fails, if any: the calls
\* it makes.  The surface is built over the pixel buffer without a copy,
\* and the texture is a copy of the surface; SDL_FreeSurface of such a
\* surface neither frees nor reads the caller's buffer
UpdateOutcomes == {"ok", "pixels", "surface", "texture", "query", "copy"}
update_calls_LeakOnSurfaceFailure(outcome) ==
    <<Acquire("mandelbrot_pixels", "pixels", {}, outcome # "pixels")>> \o
    IF outcome = "pixels" THEN error_exit_state ELSE
    <<Acquire("SDL_CreateRGBSurfaceFrom", "surface", {"pixels"}, outcome # "surface")>> \o
    IF outcome = "surface" THEN error_exit_state ELSE
    <<Acquire("SDL_CreateTextureFromSurface", "texture", {"surface", "pixels"},
              outcome # "texture"),
      Release("free", "pixels"), Release("SDL_FreeSurface", "surface")>> \o
    IF outcome = "texture" THEN error_exit_state ELSE
    <<Acquire("SDL_QueryTexture", "", {"texture"}, outcome # "query")>> \o
    IF outcome = "query"
    THEN <<Release("SDL_DestroyTexture", "texture")>> \o error_exit_state ELSE
    <<Acquire("SDL_RenderCopy", "", {"texture"}, outcome # "copy")>> \o
    IF outcome = "copy"
    THEN <<Release("SDL_DestroyTexture", "texture")>> \o error_exit_state ELSE
    <<Use("SDL_RenderPresent", {}), Release("SDL_DestroyTexture", "texture")>>
update_calls_PresentFirst(outcome) ==
    <<Acquire("mandelbrot_pixels", "pixels", {}, outcome # "pixels")>> \o
    IF outcome = "pixels" THEN error_exit_state ELSE
    <<Acquire("SDL_CreateRGBSurfaceFrom", "surface", {"pixels"}, outcome # "surface")>> \o
    IF outcome = "surface" THEN <<Release("free", "pixels")>> \o error_exit_state ELSE
    <<Acquire("SDL_CreateTextureFromSurface", "texture", {"surface", "pixels"},
              outcome # "texture"),
      Release("free", "pixels"), Release("SDL_FreeSurface", "surface")>> \o
    IF outcome = "texture" THEN error_exit_state ELSE
    <<Use("SDL_RenderPresent", {}),
      Acquire("SDL_QueryTexture", "", {"texture"}, outcome # "query")>> \o
    IF outcome = "query"
    THEN <<Release("SDL_DestroyTexture", "texture")>> \o error_exit_state ELSE
    <<Acquire("SDL_RenderCopy", "", {"texture"}, outcome # "copy")>> \o
    IF outcome = "copy"
    THEN <<Release("SDL_DestroyTexture", "texture")>> \o error_exit_state ELSE
    <<Release("SDL_DestroyTexture", "texture")>>
update_calls(outcome) ==
    <<Acquire("mandelbrot_pixels", "pixels", {}, outcome # "pixels")>> \o
    IF outcome = "pixels" THEN error_exit_state ELSE
    <<Acquire("SDL_CreateRGBSurfaceFrom", "surface", {"pixels"}, outcome # "surface")>> \o
    IF outcome = "surface" THEN <<Release("free", "pixels")>> \o error_exit_state ELSE
    <<Acquire("SDL_CreateTextureFromSurface", "texture", {"surface", "pixels"},
              outcome # "texture"),
      Release("free", "pixels"), Release("SDL_FreeSurface", "surface")>> \o
    IF outcome = "texture" THEN error_exit_state ELSE
    <<Acquire("SDL_QueryTexture", "", {"texture"}, outcome # "query")>> \o
    IF outcome = "query"
    THEN <<Release("SDL_DestroyTexture", "texture")>> \o error_exit_state ELSE
    <<Acquire("SDL_RenderCopy", "", {"texture"}, outcome # "copy")>> \o
    IF outcome = "copy"
    THEN <<Release("SDL_DestroyTexture", "texture")>> \o error_exit_state ELSE
    <<Use("SDL_RenderPresent", {}), Release("SDL_DestroyTexture", "texture")>>

Performed(calls, fn) == \E i \in DOMAIN calls : calls[i].fn = fn

update(outcome) ==
    /\ tick' = [tick EXCEPT !.updates = @ + 1, !.built = Bounds(GS),
                            !.calls = update_calls(outcome),
                            !.presented = Performed(update_calls(outcome),
                                                    "SDL_RenderPresent")]
    /\ IF outcome = "ok"
       THEN raster' = mandelbrot_pixels(REAL_LO(GS), REAL_HI(GS), IMAG_LO(GS), IMAG_HI(GS),
                                        window_w, window_h, palette)
       ELSE raster' = raster

\* while (state->running), line 89: a tick starts, or graphics_run returns.
\* Until then tick holds what the tick that just ended did
RunLoop ==
    /\ pc = "loop"
    /\ IF running
       THEN pc' = "poll" /\ tick' = NewTick
       ELSE pc' = "returned" /\ UNCHANGED tick
    /\ UNCHANGED <<running, changed, center, real_range, imag_range, window_w,
                   window_h, in_set_color, queue, posted, raster>>
    /\ UNCHANGED <<palette, MAX_ITERATION, _INFINITY, init_vars, eval_vars, pal_vars>>

\* a poll loop that rebuilds the raster after every event
PollEvent_UpdateEach ==
    /\ pc = "poll"
    /\ IF queue = <<>>
       THEN /\ pc' = "check"
            /\ UNCHANGED <<running, changed, center, real_range, imag_range, queue,
                           tick, raster>>
       ELSE LET n == HandleEvent(GS, Head(queue))
            IN  /\ queue' = Tail(queue)
                /\ running' = n.running
                /\ changed' = FALSE
                /\ center' = n.center
                /\ real_range' = n.real_range
                /\ imag_range' = n.imag_range
                /\ tick' = [tick EXCEPT !.polled = Append(@, Head(queue)),
                                        !.updates = @ + 1,
                                        !.built = Bounds(n),
                                        !.presented = TRUE]
                /\ raster' = mandelbrot_pixels(REAL_LO(n), REAL_HI(n), IMAG_LO(n),
                                               IMAG_HI(n), window_w, window_h, palette)
                /\ pc' = "poll"
    /\ UNCHANGED <<window_w, window_h, in_set_color, posted>>
    /\ UNCHANGED <<palette, MAX_ITERATION, _INFINITY, init_vars, eval_vars, pal_vars>>

\* one SDL_PollEvent of event_handler's loop, lines 143-211
PollEvent ==
    /\ pc = "poll"
    /\ IF queue = <<>>
       THEN /\ pc' = "check"
            /\ UNCHANGED <<running, changed, center, real_range, imag_range, queue, tick>>
       ELSE LET n == HandleEvent(GS, Head(queue))
            IN  /\ queue' = Tail(queue)
                /\ running' = n.running
                /\ changed' = n.changed
                /\ center' = n.center
                /\ real_range' = n.real_range
                /\ imag_range' = n.imag_range
                /\ tick' = [tick EXCEPT !.polled = Append(@, Head(queue))]
                /\ pc' = "poll"
    /\ UNCHANGED <<window_w, window_h, in_set_color, posted, raster>>
    /\ UNCHANGED <<palette, MAX_ITERATION, _INFINITY, init_vars, eval_vars, pal_vars>>

\* lines 92-97: the test of changed, update, and the delay that ends the tick
CheckChanged ==
    /\ pc = "check"
    /\ IF changed
       THEN \E outcome \in UpdateOutcomes :
                /\ update(outcome)
                /\ IF outcome = "ok"
                   THEN changed' = FALSE /\ pc' = "loop"
                   ELSE changed' = changed /\ pc' = "exit_failure"
       ELSE pc' = "loop" /\ UNCHANGED <<changed, tick, raster>>
    /\ UNCHANGED <<running, center, real_range, imag_range, window_w, window_h,
                   in_set_color, queue, posted>>
    /\ UNCHANGED <<palette, MAX_ITERATION, _INFINITY, init_vars, eval_vars, pal_vars>>

(***************************************************************************)
(* Initial states.                                                         *)
(***************************************************************************)
\* header.h's _INFINITY: a value no modulus exceeds
HeaderInfinity == PosInf
Config(w, h, rr, ir, cx, cy) ==
    [window_w |-> w, window_h |-> h, real_range |-> rr, imag_range |-> ir,
     center_x |-> cx, center_y |-> cy]
Configs ==
    {Config(4, 4, FromInt(3), FromInt(3), FromRat(-1, 2), FromInt(0)),
     Config(4, 2, FromRat(19, 8), FromInt(2), FromInt(0), FromInt(0))}

\* the creations of graphics_init (graphics.c:45-67), in order
InitOrder ==
    <<"SDL_Init", "malloc", "SDL_CreateWindow", "SDL_CreateRenderer", "create_palette",
      "SDL_CreateTexture">>
init_call(fn, ok) ==
    CASE fn = "SDL_Init" -> Acquire(fn, "sdl", {}, ok)
      [] fn = "malloc" -> Acquire(fn, "state", {}, ok)
      [] fn = "SDL_CreateWindow" -> Acquire(fn, "window", {"state"}, ok)
      [] fn = "SDL_CreateRenderer" -> Acquire(fn, "renderer", {"state", "window"}, ok)
      [] fn = "create_palette" -> Acquire(fn, "palette", {"state"}, ok)
      [] fn = "SDL_CreateTexture" -> Acquire(fn, "canvas", {"state", "renderer"}, ok)

EvalIdle ==
    /\ ev_c = CZero /\ ev_z = CZero /\ ev_i = 0 /\ ev_steps = 0
    /\ ev_ret = -1 /\ ev_pc = "off"

\* a graphics_init that returns a clean state
graphics_init_Clean(config) ==
    /\ pal_start = FromHex(PALETTE_START)
    /\ pal_end = FromHex(PALETTE_END)
    /\ palette = create_palette(pal_start, pal_end)
    /\ pal_i = MAX_ITERATION
    /\ pal_pc = "done"
    /\ running = TRUE
    /\ window_w = config.window_w
    /\ window_h = config.window_h
    /\ real_range = config.real_range
    /\ imag_range = config.imag_range
    /\ center = <<config.center_x, config.center_y>>
    /\ in_set_color = FromHex(IN_SET_COLOR)
    /\ changed = FALSE

\* the state graphics_init returns (graphics.c:57-78)
graphics_init(config) ==
    /\ pal_start = FromHex(PALETTE_START)
    /\ pal_end = FromHex(PALETTE_END)
    /\ palette = create_palette(pal_start, pal_end)
    /\ pal_i = MAX_ITERATION
    /\ pal_pc = "done"
    /\ running = TRUE
    /\ window_w = config.window_w
    /\ window_h = config.window_h
    /\ real_range = config.real_range
    /\ imag_range = config.imag_range
    /\ center = <<config.center_x, config.center_y>>
    /\ in_set_color = FromHex(IN_SET_COLOR)
    /\ changed = TRUE

PaletteOff ==
    /\ pal_start = FromHex(PALETTE_START) /\ pal_end = FromHex(PALETTE_END)
    /\ pal_i = 0 /\ pal_pc = "off" /\ palette = <<>>

RenderOff ==
    /\ running = FALSE /\ changed = FALSE /\ center = CZero
    /\ real_range = Zero /\ imag_range = Zero /\ window_w = 0 /\ window_h = 0
    /\ in_set_color = FromHex(IN_SET_COLOR)
    /\ pc = "off" /\ queue = <<>> /\ posted = 0 /\ raster = <<>>
    /\ tick = NewTick
    /\ init_config = Config(0, 0, Zero, Zero, Zero, Zero) /\ init_calls = <<>>

Init ==
    /\ MAX_ITERATION = MaxIter
    /\ _INFINITY = HeaderInfinity
    /\ \E config \in Configs : graphics_init(config) /\ init_config = config
    /\ init_calls = [i \in DOMAIN InitOrder |-> init_call(InitOrder[i], TRUE)]
    /\ pc = "loop"
    /\ queue = <<>>
    /\ posted = 0
    /\ tick = NewTick
    /\ raster = <<>>
    /\ EvalIdle

Next == Post \/ RunLoop \/ PollEvent \/ CheckChanged
Spec == Init /\ [][Next]_vars

(***************************************************************************)
(* graphics_init on its own (graphics.c:41-79), one step per creation,     *)
(* each of which may fail.  The state comes from malloc: a field holds     *)
(* nothing the program can rely on until it is assigned.  Handing such a   *)
(* field to free or to SDL_Destroy* is undefined: the process may go on to *)
(* exit(EXIT_FAILURE) or may crash first.                                  *)
(***************************************************************************)
StateObjects == {"state", "window", "renderer", "palette", "canvas"}
InitConfigs ==
    Configs \cup {Config(w, h, FromInt(3), FromInt(2), Zero, Zero) : w \in 1..4, h \in 1..2}
ExitOutcomes(calls) ==
    IF \E obj \in StateObjects : Track(calls, obj, "unset") = "wild"
    THEN {"exit_failure", "crashed"}
    ELSE {"exit_failure"}

\* one creation and the test of its result
InitAttempt(fn, ok, next, teardown) ==
    LET calls == Append(init_calls, init_call(fn, ok))
    IN  IF ok
        THEN init_calls' = calls /\ pc' = next
        ELSE /\ init_calls' = calls \o teardown
             /\ pc' \in ExitOutcomes(calls \o teardown)

InitUntouched ==
    UNCHANGED <<running, changed, center, real_range, imag_range, window_w, window_h,
                in_set_color, queue, posted, tick, raster, init_config,
                MAX_ITERATION, _INFINITY, eval_vars>>

\* lines 45-46
InitSDL ==
    /\ pc = "SDL_Init"
    /\ \E ok \in BOOLEAN : InitAttempt("SDL_Init", ok, "malloc", error_exit)
    /\ InitUntouched /\ UNCHANGED <<palette, pal_vars>>
\* lines 47-49
InitState ==
    /\ pc = "malloc"
    /\ \E ok \in BOOLEAN : InitAttempt("malloc", ok, "SDL_CreateWindow", error_exit)
    /\ InitUntouched /\ UNCHANGED <<palette, pal_vars>>
\* lines 50-53
InitWindow ==
    /\ pc = "SDL_CreateWindow"
    /\ \E ok \in BOOLEAN :
            InitAttempt("SDL_CreateWindow", ok, "SDL_CreateRenderer", error_exit_state)
    /\ InitUntouched /\ UNCHANGED <<palette, pal_vars>>
\* lines 54-56
InitRenderer ==
    /\ pc = "SDL_CreateRenderer"
    /\ \E ok \in BOOLEAN :
            InitAttempt("SDL_CreateRenderer", ok, "create_palette", error_exit_state)
    /\ InitUntouched /\ UNCHANGED <<palette, pal_vars>>
\* lines 57-59: the call of create_palette, whose steps are PaletteAlloc,
\* PaletteLoop and PaletteReturn
InitPaletteCall ==
    /\ pc = "create_palette"
    /\ pal_pc = "off"
    /\ pal_start' = FromHex(PALETTE_START)
    /\ pal_end' = FromHex(PALETTE_END)
    /\ pal_pc' = "call"
    /\ InitUntouched /\ UNCHANGED <<palette, pal_i, pc, init_calls>>
\* lines 59-61: the result of create_palette is stored and tested
InitPaletteTest ==
    /\ pc = "create_palette"
    /\ pal_pc \in {"done", "null"}
    /\ InitAttempt("create_palette", pal_pc = "done", "SDL_CreateTexture", error_exit_state)
    /\ InitUntouched /\ UNCHANGED <<palette, pal_vars>>
\* lines 62-78: the canvas, then the fields of the state
InitCanvas ==
    /\ pc = "SDL_CreateTexture"
    /\ \E ok \in BOOLEAN :
        /\ InitAttempt("SDL_CreateTexture", ok, "loop", error_exit_state)
        /\ IF ok
           THEN /\ running' = TRUE
                /\ window_w' = init_config.window_w
                /\ window_h' = init_config.window_h
                /\ real_range' = init_config.real_range
                /\ imag_range' = init_config.imag_range
                /\ center' = <<init_config.center_x, init_config.center_y>>
                /\ in_set_color' = FromHex(IN_SET_COLOR)
                /\ changed' = TRUE
                /\ tick' = [tick EXCEPT !.start =
                               [running |-> TRUE, changed |-> TRUE,
                                center |-> <<init_config.center_x, init_config.center_y>>,
                                real_range |-> init_config.real_range,
                                imag_range |-> init_config.imag_range,
                                window_w |-> init_config.window_w,
                                window_h |-> init_config.window_h]]
           ELSE UNCHANGED <<running, window_w, window_h, real_range, imag_range, center,
                            in_set_color, changed, tick>>
    /\ UNCHANGED <<queue, posted, raster, init_config, MAX_ITERATION, _INFINITY,
                   eval_vars, palette, pal_vars>>

InitGraphics ==
    /\ MAX_ITERATION = MaxIter
    /\ _INFINITY = HeaderInfinity
    /\ init_config \in InitConfigs
    /\ init_calls = <<>>
    /\ pc = "SDL_Init"
    /\ running = FALSE /\ changed = FALSE /\ center = CZero
    /\ real_range = Zero /\ imag_range = Zero /\ window_w = 0 /\ window_h = 0
    /\ in_set_color = FromHex(IN_SET_COLOR)
    /\ queue = <<>> /\ posted = 0 /\ raster = <<>>
    /\ tick = NewTick
    /\ PaletteOff
    /\ EvalIdle

NextInit ==
    \/ InitSDL \/ InitState \/ InitWindow \/ InitRenderer \/ InitPaletteCall
    \/ PaletteAlloc \/ PaletteLoop \/ PaletteReturn \/ InitPaletteTest \/ InitCanvas
SpecInit == InitGraphics /\ [][NextInit]_vars

(***************************************************************************)
(* event_handler on its own: one drain (graphics.c:143-211) of every queue *)
(* of at most two events, from a clean running state whose viewport is one *)
(* of the configured ones, has ranges at the small or the large end of the *)
(* doubles, or has a center that is no multiple of a tenth of the range.   *)
(***************************************************************************)
MaxFinite == <<2^MantBits - 1, EMax>>
InputViews ==
    Configs \cup
    {Config(4, 2, <<1, EMin>>, <<40, EMin>>, FromRat(-1, 2), Zero),
     Config(4, 2, MaxFinite, FromInt(2), Zero, FromInt(1)),
     Config(4, 4, FromInt(3), FromInt(2), FromRat(1, 10), FromRat(1, 3))}
InputQueues(w, h) ==
    {<<>>} \cup {<<e>> : e \in Events(w, h)}
           \cup {<<e1, e2>> : e1 \in Events(w, h), e2 \in Events(w, h)}

InitInput ==
    /\ MAX_ITERATION = MaxIter
    /\ _INFINITY = HeaderInfinity
    /\ \E config \in InputViews :
        /\ init_config = config
        /\ window_w = config.window_w
        /\ window_h = config.window_h
        /\ real_range = config.real_range
        /\ imag_range = config.imag_range
        /\ center = <<config.center_x, config.center_y>>
    /\ init_calls = [i \in DOMAIN InitOrder |-> init_call(InitOrder[i], TRUE)]
    /\ in_set_color = FromHex(IN_SET_COLOR)
    /\ running = TRUE
    /\ changed = FALSE
    /\ pc = "poll"
    /\ queue \in InputQueues(window_w, window_h)
    /\ posted = Len(queue)
    /\ raster = <<>>
    /\ tick = NewTick
    /\ pal_start = FromHex(PALETTE_START)
    /\ pal_end = FromHex(PALETTE_END)
    /\ palette = create_palette(pal_start, pal_end)
    /\ pal_i = MAX_ITERATION
    /\ pal_pc = "done"
    /\ EvalIdle

NextInput == PollEvent
SpecInput == InitInput /\ [][NextInput]_vars

(***************************************************************************)
(* mandelbrot_in_set on its own: every point of a grid, every              *)
(* MAX_ITERATION up to MaxIter, and for _INFINITY the infinite value and   *)
(* two finite thresholds.                                                  *)
(***************************************************************************)
Thresholds == {HeaderInfinity, FromInt(2), FromInt(4)}
EvalPoints ==
    {<<FromRat(a, 4), FromRat(b, 2)>> : a \in {-8, -4, -3, 0, 1, 2, 12}, b \in {-2, 0, 1, 2}}

InitEval ==
    /\ MAX_ITERATION \in 1..MaxIter
    /\ _INFINITY \in Thresholds
    /\ ev_c \in EvalPoints
    /\ ev_z = CZero /\ ev_i = 0 /\ ev_steps = 0 /\ ev_ret = -1 /\ ev_pc = "idle"
    /\ PaletteOff
    /\ RenderOff

NextEval == EvalCall \/ EvalIter \/ EvalExit
SpecEval == InitEval /\ [][NextEval]_vars

(***************************************************************************)
(* create_palette on its own: several endpoint pairs and table sizes.      *)
(***************************************************************************)
Rgb(r, g, b) == [r |-> r, g |-> g, b |-> b]
PaletteEnds ==
    {<<Rgb(0, 0, 0), Rgb(255, 0, 0)>>,
     <<FromHex(PALETTE_START), FromHex(PALETTE_END)>>,
     <<Rgb(200, 10, 0), Rgb(20, 250, 0)>>}
PaletteSizes == (1..MaxIter) \cup {15, 100, 256}

InitPalette ==
    /\ MAX_ITERATION \in PaletteSizes
    /\ _INFINITY = HeaderInfinity
    /\ \E se \in PaletteEnds : pal_start = se[1] /\ pal_end = se[2]
    /\ pal_i = 0 /\ pal_pc = "call" /\ palette = <<>>
    /\ EvalIdle
    /\ RenderOff

NextPalette == PaletteAlloc \/ PaletteLoop \/ PaletteReturn
SpecPalette == InitPalette /\ [][NextPalette]_vars

(***************************************************************************)
(* Helpers of the properties.                                              *)
(***************************************************************************)
View(s) == <<s.center, s.real_range, s.imag_range>>
TickOver == pc \in {"loop", "exit_failure"}
IsQuit(e) == e.type = "QUIT" \/ (e.type = "KEYDOWN" /\ e.sym = "q")
IsZoomIn(e) ==
    \/ e.type = "KEYDOWN" /\ e.sym \in {"PLUS", "p"}
    \/ e.type = "MOUSEWHEEL" /\ e.y = -1
IsZoomOut(e) ==
    \/ e.type = "KEYDOWN" /\ e.sym \in {"MINUS", "m"}
    \/ e.type = "MOUSEWHEEL" /\ e.y = 1
IsRecenter(e) == e.type = "MOUSEBUTTONDOWN" /\ e.button = "RIGHT"
\* an event that maps to no viewport transition and is not a quit
IsNoOp(e) == ~(IsPan(e) \/ IsZoomIn(e) \/ IsZoomOut(e) \/ IsRecenter(e) \/ IsQuit(e))
\* |y - x| <= 3 * 2^-MantBits * |x|, for finite x and y: the error two
\* roundings can leave
Close(x, y) ==
    LET e == IF x[2] < y[2] THEN x[2] ELSE y[2]
        xm == x[1] * 2^(x[2] - e)
        ym == y[1] * 2^(y[2] - e)
    IN  Abs(ym - xm) * 2^MantBits <= 3 * Abs(xm)
ZoomRatios == {ZOOM_RATIO, FromInt(3), FromRat(1, 3), FromInt(10)}

\* C1: a tick drains the whole queue before it looks at the dirty flag, and a
\* tick that polled N >= 1 pan events called update exactly once, with the
\* bounds of the viewport that results from applying all N events in order.
C1_DirtyCoalescing ==
    /\ pc = "poll" => tick.updates = 0
    /\ pc = "check" => tick.polled = tick.queued /\ tick.updates = 0
    /\ (TickOver /\ tick.polled # <<>> /\ \A i \in DOMAIN tick.polled : IsPan(tick.polled[i]))
        => /\ tick.polled = tick.queued
           /\ tick.updates = 1
           /\ tick.built = Bounds(HandleAll(tick.start, tick.polled))
C1_Witness ==
    /\ pc = "loop"
    /\ Len(tick.polled) = 2
    /\ \A i \in DOMAIN tick.polled : IsPan(tick.polled[i])
    /\ tick.updates = 1
    /\ tick.presented
    /\ tick.built # Bounds(HandleEvent(tick.start, tick.polled[1]))
    /\ tick.built # Bounds(tick.start)

\* C2: a right click on the middle pixel (window_w / 2, window_h / 2) leaves
\* center.x and center.y as they were, whatever the window's dimensions.
C2_RecenterIdempotent ==
    (/\ pc \in {"poll", "check"}
     /\ Len(tick.polled) = 1
     /\ tick.polled[1] = Ev("MOUSEBUTTONDOWN", "", "RIGHT", window_w \div 2, window_h \div 2))
        => center = tick.start.center

\* C3 as claimed: zoom_in(r) followed by zoom_out(r) restores real_range and
\* imag_range to the values they had, and leaves the center alone.
C3_ZoomInverseExact ==
    (/\ pc \in {"poll", "check"}
     /\ Len(tick.polled) = 2
     /\ IsZoomIn(tick.polled[1])
     /\ IsZoomOut(tick.polled[2]))
        => View(GS) = View(tick.start)
\* C3 as amended: zoom_in(r) followed by zoom_out(r) leaves the center
\* unchanged and restores each range to within the error of the two
\* roundings (3 * 2^-MantBits of the range), for the ratio of the key and
\* wheel events and for every ratio of ZoomRatios applied to the viewport a
\* drain ends with; zoom_in or zoom_out alone never changes the center.
C3_ZoomInverseClose ==
    /\ (/\ pc \in {"poll", "check"}
        /\ Len(tick.polled) = 2
        /\ IsZoomIn(tick.polled[1])
        /\ IsZoomOut(tick.polled[2]))
         => /\ center = tick.start.center
            /\ Close(tick.start.real_range, real_range)
            /\ Close(tick.start.imag_range, imag_range)
    /\ (/\ pc \in {"poll", "check"}
        /\ Len(tick.polled) = 1
        /\ (IsZoomIn(tick.polled[1]) \/ IsZoomOut(tick.polled[1])))
         => /\ center = tick.start.center
            /\ real_range # tick.start.real_range
            /\ imag_range # tick.start.imag_range
    /\ pc = "check" =>
         \A r \in ZoomRatios :
            LET s1 == zoom_in(GS, r)
                s2 == zoom_out(s1, r)
            IN  /\ s1.center = center /\ s2.center = center
                /\ Close(real_range, s2.real_range)
                /\ Close(imag_range, s2.imag_range)
C3_Witness ==
    /\ pc = "check"
    /\ Len(tick.polled) = 2
    /\ IsZoomIn(tick.polled[1])
    /\ IsZoomOut(tick.polled[2])
    /\ real_range # tick.start.real_range
    /\ imag_range = tick.start.imag_range

\* C4: a call of mandelbrot_in_set executes the step z = z^2 + c at most
\* MAX_ITERATION times, and returns -1 or an index n with
\* 0 <= n < MAX_ITERATION.
C4_EvaluatorBound ==
    /\ ev_steps <= MAX_ITERATION
    /\ ev_i <= MAX_ITERATION
    /\ ev_pc = "done" =>
        /\ ev_ret = -1 \/ (0 <= ev_ret /\ ev_ret < MAX_ITERATION)
        /\ ev_ret = -1 => ev_steps = MAX_ITERATION
        /\ ev_ret >= 0 => ev_steps = ev_ret + 1
        /\ ev_ret = mandelbrot_in_set(ev_c)
C4_Witness ==
    /\ ev_pc = "done"
    /\ MAX_ITERATION = MaxIter
    /\ ev_ret = MAX_ITERATION - 1
    /\ ev_steps = MAX_ITERATION

\* the first step n < MAX_ITERATION at which the iterate of c exceeds the
\* finite threshold t in modulus, or -1 when there is none
RECURSIVE FirstEscape(_, _, _, _)
FirstEscape(c, z, n, t) ==
    IF n >= MAX_ITERATION THEN -1
    ELSE LET z1 == CAdd(CSquare(z), c)
         IN  IF CabsGt(z1, t) THEN n ELSE FirstEscape(c, z1, n + 1, t)
\* the finite escape threshold: the configured one when it is finite, else 2
FiniteThreshold == IF IsFinite(_INFINITY) THEN _INFINITY ELSE FromInt(2)

\* C5: the evaluator returns the first step at which the modulus of the
\* iterate exceeds the finite escape threshold, and -1 (Bounded) only when no
\* iterate within MAX_ITERATION steps exceeds it; c = 3 + 0i is not Bounded.
C5_EscapeDetection ==
    ev_pc = "done" =>
        /\ ev_ret = FirstEscape(ev_c, CZero, 0, FiniteThreshold)
        /\ ev_c = <<FromInt(3), Zero>> => ev_ret # -1

\* C6: for c = 0 the iterate stays 0, for c = -1 the iterates alternate
\* between -1 and 0, and both calls return -1 (Bounded), for every
\* MAX_ITERATION >= 1 and every escape threshold >= 2.
C6_KnownMembership ==
    /\ (ev_pc \in {"loop", "done"} /\ ev_c = CZero) => ev_z = CZero
    /\ (ev_pc \in {"loop", "done"} /\ ev_c = <<FromInt(-1), Zero>>) =>
            ev_z = IF ev_steps % 2 = 1 THEN <<FromInt(-1), Zero>> ELSE CZero
    /\ (ev_pc = "done" /\ ev_c \in {CZero, <<FromInt(-1), Zero>>}) =>
            ev_ret = -1 /\ ev_steps = MAX_ITERATION
C6_Witness ==
    /\ ev_pc = "done"
    /\ ev_c = <<FromInt(-1), Zero>>
    /\ _INFINITY = FromInt(2)
    /\ MAX_ITERATION = MaxIter
    /\ ev_ret = -1

\* C7 as claimed: from start (0,0,0) and end (255,0,0) the table has
\* MAX_ITERATION + 1 entries, entry i < MAX_ITERATION is
\* (i * (255 / MAX_ITERATION), 0, 0), entry 0 is start, and the red channel
\* of entry MAX_ITERATION - 1 is within one step of 255.
C7_PaletteWithinOneStep ==
    (pal_pc = "done" /\ pal_start = Rgb(0, 0, 0) /\ pal_end = Rgb(255, 0, 0)) =>
        /\ DOMAIN palette = 0..MAX_ITERATION
        /\ \A i \in 0..(MAX_ITERATION - 1) :
                palette[i] = Rgb(i * (255 \div MAX_ITERATION), 0, 0)
        /\ palette[0] = pal_start
        /\ 255 - palette[MAX_ITERATION - 1].r <= 255 \div MAX_ITERATION
\* C7 as amended: the same table, whose last gradient entry falls short of
\* 255 by one step plus the remainder of 255 / MAX_ITERATION; it is within
\* one step of 255 exactly when MAX_ITERATION divides 255.
C7_PaletteInterpolation ==
    (pal_pc = "done" /\ pal_start = Rgb(0, 0, 0) /\ pal_end = Rgb(255, 0, 0)) =>
        /\ DOMAIN palette = 0..MAX_ITERATION
        /\ \A i \in 0..(MAX_ITERATION - 1) :
                palette[i] = Rgb(i * (255 \div MAX_ITERATION), 0, 0)
        /\ palette[0] = pal_start
        /\ palette = create_palette(pal_start, pal_end)
        /\ 255 - palette[MAX_ITERATION - 1].r
                = (255 \div MAX_ITERATION) + (255 % MAX_ITERATION)
        /\ (255 - palette[MAX_ITERATION - 1].r <= 255 \div MAX_ITERATION)
                <=> (255 % MAX_ITERATION = 0)
C7_Witness ==
    /\ pal_pc = "done"
    /\ pal_start = Rgb(0, 0, 0)
    /\ pal_end = Rgb(255, 0, 0)
    /\ MAX_ITERATION = 100
    /\ palette[99].r = 198

\* the plane point of pixel p of the raster built from bounds b
PlanePoint(p, b) ==
    <<map_range(FromInt(p[1]), FromInt(0), FromInt(window_w), b[1], b[2]),
      map_range(FromInt(p[2]), FromInt(0), FromInt(window_h), b[3], b[4])>>

\* C8: in a presented raster a pixel whose plane point escapes at step n has
\* the colour palette[n], and a pixel whose plane point is bounded has the
\* in-set colour held in the render state.
C8_PixelColouring ==
    (TickOver /\ tick.presented) =>
        \A p \in DOMAIN raster :
            LET n == mandelbrot_in_set(PlanePoint(p, tick.built))
            IN  raster[p] = IF n >= 0 THEN palette[n] ELSE in_set_color

\* C9: a quit event sets running to false, leaves the viewport unchanged and
\* does not mark the state dirty; a tick that starts clean and polls only a
\* quit performs no raster build.
C9_QuitNotDirty ==
    (/\ pc \in {"poll", "check", "loop", "exit_failure"}
     /\ ~tick.start.changed
     /\ Len(tick.polled) = 1
     /\ IsQuit(tick.polled[1]))
        => /\ ~running
           /\ View(GS) = View(tick.start)
           /\ ~changed
           /\ tick.updates = 0

\* C10: in a tick that starts clean the dirty flag is set exactly when the
\* viewport differs from the one the tick started with, and events that map
\* to no viewport transition neither set the flag nor cause a raster build.
C10_RecomputeOnlyOnChange ==
    /\ (pc \in {"poll", "check"} /\ ~tick.start.changed)
        => (changed <=> View(GS) # View(tick.start))
    /\ (/\ pc \in {"poll", "check", "loop", "exit_failure"}
        /\ ~tick.start.changed
        /\ \A i \in DOMAIN tick.polled : IsNoOp(tick.polled[i]))
        => /\ pc \in {"poll", "check"} => ~changed
           /\ tick.updates = 0

UpdateSteps ==
    {"mandelbrot_pixels", "SDL_CreateRGBSurfaceFrom", "SDL_CreateTextureFromSurface",
     "SDL_QueryTexture", "SDL_RenderCopy"}

\* C11: update presents the raster only after the pixel buffer, the surface,
\* the texture, the texture query and the render copy have all succeeded;
\* when one of them fails the process exits with failure status in that tick,
\* nothing has been presented, and no step of the program is taken after it.
C11_NoPartialPresentation ==
    (TickOver /\ tick.updates > 0) =>
        LET c == tick.calls
        IN  /\ Performed(c, "SDL_RenderPresent") =>
                \A i \in DOMAIN c : c[i].fn = "SDL_RenderPresent" =>
                    \A fn \in UpdateSteps :
                        \E j \in 1..(i - 1) : c[j].fn = fn /\ c[j].ok
            /\ tick.presented = Performed(c, "SDL_RenderPresent")
            /\ ~AllOk(c) =>
                /\ ~Performed(c, "SDL_RenderPresent")
                /\ c[Len(c)].fn = "exit(EXIT_FAILURE)"
                /\ pc = "exit_failure"
                /\ ~ENABLED Next
            /\ AllOk(c) => pc = "loop"
C11_Witness ==
    /\ pc = "exit_failure"
    /\ Failed(tick.calls, "SDL_RenderCopy")
    /\ tick.polled # <<>>

\* C19: on every path through update the pixel buffer, the surface and the
\* texture, when they were created, are released exactly once, are handed to
\* no call after their release, and are not held when the tick ends.
RasterObjects == {"pixels", "surface", "texture"}
C19_RasterOwnership ==
    (TickOver /\ tick.updates > 0) =>
        \A obj \in RasterObjects :
            LET end == Track(tick.calls, obj, "unset")
            IN  IF Acquired(tick.calls, obj)
                THEN end = "released"
                ELSE end \in {"unset", "null"}
C19_Witness ==
    /\ pc = "exit_failure"
    /\ Failed(tick.calls, "SDL_CreateTextureFromSurface")
    /\ Track(tick.calls, "pixels", "unset") = "released"
    /\ Track(tick.calls, "surface", "unset") = "released"
    /\ Track(tick.calls, "texture", "unset") = "null"

\* C12: when graphics_init fails after the state was allocated, the teardown
\* runs before the process exits with failure status, releases each object
\* acquired so far exactly once, and releases nothing that was never acquired
\* or initialised.
InitFailedWithState ==
    /\ pc \in {"exit_failure", "crashed"}
    /\ Acquired(init_calls, "state")
C12_InitFailureTeardown ==
    InitFailedWithState =>
        /\ pc = "exit_failure"
        /\ Performed(init_calls, "SDL_DestroyWindow")
        /\ \A obj \in StateObjects :
               LET end == Track(init_calls, obj, "unset")
               IN  IF Acquired(init_calls, obj)
                   THEN end = "released"
                   ELSE end \in {"unset", "null"}

\* the last event the drain has applied, and the state it was applied to
LastPolled == tick.polled[Len(tick.polled)]
BeforeLast == HandleAll(tick.start, SubSeq(tick.polled, 1, Len(tick.polled) - 1))
Key(sym) == Ev("KEYDOWN", sym, "", 0, 0)
ArrowOf(sym) ==
    CASE sym = "k" -> "UP" [] sym = "j" -> "DOWN" [] sym = "h" -> "LEFT"
      [] sym = "l" -> "RIGHT" [] OTHER -> sym

\* C13: a vi key (k, j, h, l) makes the transition of its arrow key (up,
\* down, left, right); wheel y = 1 makes the transition of zoom-out and wheel
\* y = -1 that of zoom-in, both with ratio 1.1 (as the minus and plus keys
\* do); a right button press recenters on the clicked pixel, and an event
\* that is no pan, zoom, quit or right button press (a press of another
\* button among them) changes nothing of the viewport.
C13_InputEquivalences ==
    tick.polled # <<>> =>
        LET e == LastPolled
            s == BeforeLast
        IN  /\ IsPan(e) =>
                GS = HandleEvent(s, Key(ArrowOf(e.sym)))
            /\ (e.type = "MOUSEWHEEL" /\ e.y = 1) =>
                /\ GS = HandleEvent(s, Key("MINUS"))
                /\ View(GS) = View(zoom_out(s, FromRat(11, 10)))
            /\ (e.type = "MOUSEWHEEL" /\ e.y = -1) =>
                /\ GS = HandleEvent(s, Key("PLUS"))
                /\ View(GS) = View(zoom_in(s, FromRat(11, 10)))
            /\ (e.type = "MOUSEBUTTONDOWN" /\ e.button = "RIGHT") =>
                View(GS) = View(recenter(s, e.x, e.y))
            /\ IsNoOp(e) => View(GS) = View(s)
C13_Witness ==
    /\ pc = "check"
    /\ Len(tick.polled) = 2
    /\ tick.polled[1] = Key("k")
    /\ tick.polled[2] = Key("UP")
    /\ center[2] # tick.start.center[2]
    /\ center[1] = tick.start.center[1]

\* C14: a right button press at pixel (x, y) sets center.x to the plane
\* coordinate of column x over the window's width and center.y to the plane
\* coordinate of row y over the window's height, both taken in the viewport
\* before the press, and leaves real_range and imag_range unchanged.
C14_RecenterMapping ==
    (Len(tick.polled) = 1 /\ IsRecenter(tick.polled[1])) =>
        LET e == tick.polled[1]
            s == tick.start
        IN  /\ center[1] = map_range(FromInt(e.x), FromInt(0), FromInt(s.window_w),
                                     REAL_LO(s), REAL_HI(s))
            /\ center[2] = map_range(FromInt(e.y), FromInt(0), FromInt(s.window_h),
                                     IMAG_LO(s), IMAG_HI(s))
            /\ real_range = s.real_range
            /\ imag_range = s.imag_range

\* the axis a pan key moves along (1: real, 2: imaginary) and its direction
PanAxis(e) == IF ArrowOf(e.sym) \in {"LEFT", "RIGHT"} THEN 1 ELSE 2
PanSign(e) == IF ArrowOf(e.sym) \in {"RIGHT", "DOWN"} THEN 1 ELSE -1
Opposite(e1, e2) ==
    IsPan(e1) /\ IsPan(e2) /\ PanAxis(e1) = PanAxis(e2) /\ PanSign(e1) = -PanSign(e2)
\* a pan applied to s: one coordinate moved by a tenth of its range, computed
\* in doubles; nothing else differs, and the state is dirty
PanOf(s, e) ==
    LET range == IF PanAxis(e) = 1 THEN s.real_range ELSE s.imag_range
        step == FDiv(range, FromInt(10))
        moved == IF PanSign(e) = 1 THEN FAdd(s.center[PanAxis(e)], step)
                 ELSE FSub(s.center[PanAxis(e)], step)
    IN  [s EXCEPT !.center[PanAxis(e)] = moved, !.changed = TRUE]
\* |c2 - c0| <= 2^-MantBits * (|c1| + |c2|), for finite c0, c1, c2: the error
\* the roundings of c1 = c0 + d and c2 = c1 - d can leave
WithinTwoRoundings(c0, c1, c2) ==
    \/ c2 = c0
    \/ LET es == {x[2] : x \in {y \in {c0, c1, c2} : y[1] # 0}}
           e == CHOOSE m \in es : \A n \in es : m <= n
           int(x) == x[1] * 2^(x[2] - e)
       IN  Abs(int(c2) - int(c0)) * 2^MantBits <= Abs(int(c1)) + Abs(int(c2))

\* C15 as claimed: a pan moves exactly one center coordinate by a tenth of
\* the range of its axis (left/right: center.x by -/+ real_range / 10,
\* up/down: center.y by -/+ imag_range / 10), leaves the other coordinate and
\* both ranges unchanged and marks the state dirty; a pan followed by the
\* opposite pan restores the center.
C15_PanRestoresCenter ==
    /\ (tick.polled # <<>> /\ IsPan(LastPolled)) => GS = PanOf(BeforeLast, LastPolled)
    /\ (Len(tick.polled) = 2 /\ Opposite(tick.polled[1], tick.polled[2])) =>
            center = tick.start.center
\* C15 as amended: a pan does what is claimed, in double arithmetic; a pan
\* followed by the opposite pan leaves the other coordinate and both ranges
\* unchanged and brings the panned coordinate back to within the error of
\* the two roundings, not always to the value it had.
C15_PanRestoresClose ==
    /\ (tick.polled # <<>> /\ IsPan(LastPolled)) => GS = PanOf(BeforeLast, LastPolled)
    /\ (Len(tick.polled) = 2 /\ Opposite(tick.polled[1], tick.polled[2])) =>
            LET a == PanAxis(tick.polled[1])
                mid == HandleEvent(tick.start, tick.polled[1])
            IN  /\ center[3 - a] = tick.start.center[3 - a]
                /\ real_range = tick.start.real_range
                /\ imag_range = tick.start.imag_range
                /\ WithinTwoRoundings(tick.start.center[a], mid.center[a], center[a])
C15_Witness ==
    /\ pc = "check"
    /\ Len(tick.polled) = 2
    /\ Opposite(tick.polled[1], tick.polled[2])
    /\ PanAxis(tick.polled[1]) = 1
    /\ center[1] # tick.start.center[1]
    /\ changed

IsZoom(e) == IsZoomIn(e) \/ IsZoomOut(e)
\* every double greater than zero: subnormal, normal, infinite
PositiveDoubles ==
    {<<m, EMin>> : m \in 1..(2^(MantBits - 1) - 1)}
    \cup {<<m, e>> : m \in (2^(MantBits - 1))..(2^MantBits - 1), e \in EMin..EMax}
    \cup {PosInf}
WithRanges(s, x) == [s EXCEPT !.real_range = x, !.imag_range = x]

\* C16: from configured ranges greater than zero, both ranges are greater
\* than zero after every event of a drain; an event that is no zoom leaves
\* both as they were; and a zoom-in or zoom-out applied to any range greater
\* than zero gives a range greater than zero, so that no sequence of events,
\* however long, ends the positivity.
C16_RangePositivity ==
    /\ FGt(real_range, Zero)
    /\ FGt(imag_range, Zero)
    /\ (tick.polled # <<>> /\ ~IsZoom(LastPolled)) =>
            /\ real_range = BeforeLast.real_range
            /\ imag_range = BeforeLast.imag_range
    /\ (pc = "check" /\ tick.polled = <<>>) =>
            \A x \in PositiveDoubles :
                LET zi == zoom_in(WithRanges(GS, x), ZOOM_RATIO)
                    zo == zoom_out(WithRanges(GS, x), ZOOM_RATIO)
                IN  /\ FGt(zi.real_range, Zero) /\ FGt(zi.imag_range, Zero)
                    /\ FGt(zo.real_range, Zero) /\ FGt(zo.imag_range, Zero)
C16_Witness ==
    /\ pc = "check"
    /\ Len(tick.polled) = 2
    /\ IsZoomIn(tick.polled[1])
    /\ IsZoomIn(tick.polled[2])
    /\ tick.start.real_range = <<1, EMin>>
    /\ real_range = <<1, EMin>>
    /\ imag_range # tick.start.imag_range

QuitPolled == \E i \in DOMAIN tick.polled : IsQuit(tick.polled[i])
\* C17: running never goes from false to true (no tick starts, and nothing
\* is polled, in a state that was not running when the tick started); once a
\* quit event has set running to false the tick polls no further event and
\* builds no raster, and graphics_run returns at the loop test that follows.
C17_TerminalState ==
    /\ pc \in {"poll", "check"} => tick.start.running
    /\ QuitPolled => ~running
    /\ pc = "returned" => ~running
    /\ \A i \in DOMAIN tick.polled : IsQuit(tick.polled[i]) => i = Len(tick.polled)
    /\ (TickOver /\ QuitPolled) => tick.updates = 0

\* no tick has ended yet
BeforeFirstTick == pc = "loop" /\ raster = <<>> /\ tick.updates = 0
\* C18: the state graphics_init returns is dirty, and the first tick builds
\* the raster exactly once, whether or not an event is queued; after a tick
\* that built the raster the dirty flag is false, so every later tick starts
\* clean, and a later tick that polls no event builds nothing.
C18_InitialAndIdleTicks ==
    /\ tick.updates <= 1
    /\ BeforeFirstTick => changed /\ tick.polled = <<>>
    /\ (TickOver /\ tick.start.changed /\ ~BeforeFirstTick) => tick.updates = 1
    /\ (pc = "loop" /\ tick.updates = 1) => ~changed
    /\ (pc \in {"poll", "check"} /\ raster # <<>>) => ~tick.start.changed
    /\ (TickOver /\ ~tick.start.changed /\ tick.polled = <<>>) =>
            tick.updates = 0 /\ ~changed
C18_Witness ==
    /\ pc = "loop"
    /\ posted = 0
    /\ raster # <<>>
    /\ ~tick.start.changed
    /\ tick.polled = <<>>
    /\ tick.updates = 0
    /\ ~changed
====
